---- MODULE Spec2Model ----
(***************************************************************************)
(* The P2P connection handler of network/src/p2p/handler.rs: the Manager   *)
(* (token pools, connection maps, session registry, waiting-sync timer     *)
(* maps) and the Handler (node directory, reactor callbacks, messages).    *)
(*                                                                         *)
(* Every reactor callback runs on the single I/O thread and holds the      *)
(* Manager mutex, so a callback is one atomic action.  A callback in which *)
(* a debug_assert! fails sets debug_assert_failed: a build with debug       *)
(* assertions aborts there, so no callback runs afterwards; a release      *)
(* build, which elides the assertion, goes on from the state left.         *)
(***************************************************************************)
EXTENDS FiniteSets, Integers, Sequences, TLC

\* ---------------------------------------------------------------- bounds
\* The pools of the source hold 32 stream tokens and 10 timer tokens; the
\* model keeps the layout of the token ranges and scales the two capacities.
MAX_CONNECTIONS == 2
MAX_SYNC_WAITS == 1
\* Peer addresses 1..MaxAddr, nonces 1..MaxNonce, secrets 1..MaxSecret.
MaxAddr == 2
MaxNonce == 1
MaxSecret == 1
\* Connections that may be pending on the listener at once.
MaxPending == 2
\* Frames a Connection may hold in its send queue.
MaxQueue == 1
\* Unused registrations counted per session.
MaxCredit == 2
\* The receive calls of one stream_readable callback are counted modulo this.
MaxCalls == 2

\* ------------------------------------------------------- program constants
ACCEPT_TOKEN == 0
FIRST_CONNECTION_TOKEN == ACCEPT_TOKEN + 1
LAST_CONNECTION_TOKEN == FIRST_CONNECTION_TOKEN + MAX_CONNECTIONS
FIRST_WAIT_SYNC_TOKEN == LAST_CONNECTION_TOKEN
LAST_WAIT_SYNC_TOKEN == FIRST_WAIT_SYNC_TOKEN + MAX_SYNC_WAITS

\* TokenGenerator::new(begin, end) hands out tokens of [begin, end).
StreamTokens == FIRST_CONNECTION_TOKEN .. (LAST_CONNECTION_TOKEN - 1)
TimerTokens == FIRST_WAIT_SYNC_TOKEN .. (LAST_WAIT_SYNC_TOKEN - 1)

Addrs == 1 .. MaxAddr
Nonces == 1 .. MaxNonce
Secrets == 1 .. MaxSecret
Session == [nonce : Nonces, secret : Secrets]

NONE == -1

VARIABLES
    manager,               \* Handler.manager: the Manager behind the mutex
    node_token_to_socket,  \* Handler.node_token_to_socket
    socket_to_node_token,  \* Handler.socket_to_node_token
    listener_pending,      \* connections waiting on Manager.listener
    io_deregister,         \* streams queued by io.deregister_stream
    debug_assert_failed,   \* a debug_assert! failed: the debug build has aborted
    session_credit,        \* per session: registrations not yet used by a Connection
    result,                \* what the last callback did and returned
    reading,               \* the stream_readable callback inside its receive loop
    unread,                \* per stream: what it yields to the next receive call
    nodes_added,           \* the connections on_node_added was called for
    debug_assertions       \* cfg!(debug_assertions): debug_assert! is compiled in

directory == <<node_token_to_socket, socket_to_node_token>>
\* The receive loop of stream_readable, where it is followed call by call.
read_loop == <<reading, unread, nodes_added>>
vars == <<manager, node_token_to_socket, socket_to_node_token, listener_pending,
          io_deregister, debug_assert_failed, session_credit, result, read_loop,
          debug_assertions>>

\* The fields of struct Manager.
tokens == manager.tokens
unprocessed_tokens == manager.unprocessed_tokens
connections == manager.connections
unprocessed_connections == manager.unprocessed_connections
registered_sessions == manager.registered_sessions
socket_to_session == manager.socket_to_session
waiting_sync_tokens == manager.waiting_sync_tokens
waiting_sync_stream_to_timer == manager.waiting_sync_stream_to_timer
waiting_sync_timer_to_stream == manager.waiting_sync_timer_to_stream

\* ------------------------------------------------------------ HashMap
EmptyMap == <<>>
\* HashMap::insert(k, v): the entry is added or overwritten.
Insert(m, k, v) == [x \in (DOMAIN m) \cup {k} |-> IF x = k THEN v ELSE m[x]]
\* HashMap::remove(k): nothing happens when k is absent.
Remove(m, k) == [x \in (DOMAIN m) \ {k} |-> m[x]]
Values(m) == {m[x] : x \in DOMAIN m}

\* ------------------------------------------------------- TokenGenerator
\* gen(): some unused token of the range, None when the range is used up.
Gen(allocated, range) ==
    IF range \ allocated = {} THEN {NONE} ELSE range \ allocated
\* restore(t): t is free afterwards; it returns TRUE iff t was allocated.
Restore(allocated, t) == allocated \ {t}
Restored(allocated, t) == t \in allocated

\* ------------------------------------------- connections and their streams
\* The streams are not told apart.
Stream == "stream"
\* UnprocessedConnection::new(stream).
UnprocessedConnection(stream) == [stream |-> stream]
\* Connection::new(stream, secret, nonce): nothing queued yet.
Connection(stream, session) == [stream |-> stream, session |-> session, queue |-> <<>>]
Enqueue(connection, frame) == [connection EXCEPT !.queue = Append(@, frame)]
\* The frames a Connection queues: enqueue_sync(nonce), enqueue_ack(),
\* enqueue_negotiation_request(..) and enqueue_extension_message(..).
Sync(nonce) == <<"Sync", nonce>>
Ack == <<"Ack">>
Negotiation == <<"Negotiation">>
Extension == <<"Extension">>

\* What a stream yields to one receive call.
Inputs == [kind : {"partial", "malformed", "frame"}, nonce : {0}]
              \cup [kind : {"sync"}, nonce : Nonces]

\* UnprocessedConnection::receive(sessions): Some(Sync) for a complete Sync
\* whose nonce keys into sessions, None when more bytes are needed, an error
\* for a malformed frame or an unknown nonce.
UnprocessedReceive(input, sessions) ==
    CASE input.kind = "sync" /\ input.nonce \in DOMAIN sessions -> "Some"
      [] input.kind = "partial" -> "None"
      [] OTHER -> "Err"

\* What a Manager function hands back: the Manager after the call, the error
\* (or "Ok"), the returned value (an Option is the empty set or a singleton),
\* and whether a debug_assert! fired.
Ret(m, err, val, af) == [m |-> m, err |-> err, val |-> val, af |-> af]

\* ------------------------------------------------------------ Manager
Listen ==
    [tokens |-> {},
     unprocessed_tokens |-> {},
     connections |-> EmptyMap,
     unprocessed_connections |-> EmptyMap,
     registered_sessions |-> EmptyMap,
     socket_to_session |-> EmptyMap,
     waiting_sync_tokens |-> {},
     waiting_sync_stream_to_timer |-> EmptyMap,
     waiting_sync_timer_to_stream |-> EmptyMap]

\* register_unprocessed_connection once both tokens are allocated: the timer
\* maps, the UnprocessedConnection and unprocessed_tokens get their entries.
\* Both timer maps are keyed by the stream token.
install_unprocessed_connection(m, stream, token, timer_token) ==
    LET m2 == [m EXCEPT
                 !.waiting_sync_stream_to_timer = Insert(@, token, timer_token),
                 !.waiting_sync_timer_to_stream = Insert(@, token, timer_token),
                 !.unprocessed_connections =
                     Insert(@, token, UnprocessedConnection(stream)),
                 !.unprocessed_tokens = @ \cup {token}]
        af == \/ token \in DOMAIN m.waiting_sync_stream_to_timer
              \/ token \in DOMAIN m.waiting_sync_timer_to_stream
              \/ token \in DOMAIN m.unprocessed_connections
              \/ token \in m.unprocessed_tokens
    IN Ret(m2, "Ok", <<token, timer_token>>, af)

\* Mutant: the timer pool is asked before the stream pool.
register_unprocessed_connection_timer_first(m, stream, token, timer_token) ==
    IF timer_token = NONE THEN Ret(m, "TooManyWaitingSync", NONE, FALSE)
    ELSE IF token = NONE THEN Ret(m, "TooManyConnections", NONE, FALSE)
    ELSE install_unprocessed_connection(
             [m EXCEPT !.tokens = @ \cup {token},
                       !.waiting_sync_tokens = @ \cup {timer_token}],
             stream, token, timer_token)

\* token and timer_token are what the two gen() calls return; the stream
\* token stays allocated when the timer pool is used up.
register_unprocessed_connection(m, stream, token, timer_token) ==
    IF token = NONE THEN Ret(m, "TooManyConnections", NONE, FALSE)
    ELSE LET m1 == [m EXCEPT !.tokens = @ \cup {token}] IN
      IF timer_token = NONE THEN Ret(m1, "TooManyWaitingSync", NONE, FALSE)
      ELSE install_unprocessed_connection(
               [m1 EXCEPT !.waiting_sync_tokens = @ \cup {timer_token}],
               stream, token, timer_token)

register_connection(m, connection, token) ==
    Ret([m EXCEPT !.connections = Insert(@, token, connection)], "Ok", NONE,
        token \in DOMAIN m.connections)

\* Mutant: the timer token is not handed back.
remove_waiting_sync_by_stream_token_keeping_timer(m, stream) ==
    IF stream \in DOMAIN m.waiting_sync_stream_to_timer
    THEN Ret([m EXCEPT
                !.waiting_sync_stream_to_timer = Remove(@, stream),
                !.waiting_sync_timer_to_stream = Remove(@, stream),
                !.unprocessed_tokens = @ \ {stream},
                !.unprocessed_connections = Remove(@, stream)],
             "Ok",
             IF stream \in DOMAIN m.unprocessed_connections
             THEN {m.unprocessed_connections[stream]} ELSE {}, FALSE)
    ELSE Ret(m, "Ok", {}, FALSE)

remove_waiting_sync_by_stream_token(m, stream) ==
    IF stream \in DOMAIN m.waiting_sync_stream_to_timer
    THEN LET timer == m.waiting_sync_stream_to_timer[stream]
             m1 == [m EXCEPT
                      !.waiting_sync_stream_to_timer = Remove(@, stream),
                      !.waiting_sync_tokens = Restore(@, timer),
                      !.waiting_sync_timer_to_stream = Remove(@, stream),
                      !.unprocessed_tokens = @ \ {stream},
                      !.unprocessed_connections = Remove(@, stream)]
             af == \/ ~Restored(m.waiting_sync_tokens, timer)
                   \/ stream \notin DOMAIN m.waiting_sync_timer_to_stream
                   \/ stream \notin m.unprocessed_tokens
                   \/ stream \notin DOMAIN m.unprocessed_connections
         IN Ret(m1, "Ok",
                IF stream \in DOMAIN m.unprocessed_connections
                THEN {m.unprocessed_connections[stream]} ELSE {}, af)
    ELSE Ret(m, "Ok", {}, FALSE)

remove_waiting_sync_by_timer_token(m, timer) ==
    IF timer \in DOMAIN m.waiting_sync_timer_to_stream
    THEN LET stream == m.waiting_sync_timer_to_stream[timer]
             m1 == [m EXCEPT
                      !.waiting_sync_timer_to_stream = Remove(@, timer),
                      !.waiting_sync_tokens = Restore(@, timer),
                      !.waiting_sync_stream_to_timer = Remove(@, stream),
                      !.unprocessed_tokens = @ \ {stream},
                      !.unprocessed_connections = Remove(@, stream)]
             af == \/ ~Restored(m.waiting_sync_tokens, timer)
                   \/ stream \notin DOMAIN m.waiting_sync_stream_to_timer
                   \/ stream \notin m.unprocessed_tokens
                   \/ stream \notin DOMAIN m.unprocessed_connections
         IN Ret(m1, "Ok", NONE, af)
    ELSE Ret(m, "Ok", NONE, FALSE)

\* Mutant: the Connection is built without the Ack.
process_connection_without_ack(m, unprocessed_token, session) ==
    LET r == remove_waiting_sync_by_stream_token(m, unprocessed_token) IN
    IF r.val = {} THEN Ret(r.m, "panic", {}, r.af)
    ELSE LET unprocessed == CHOOSE u \in r.val : TRUE
         IN Ret(r.m, "Ok", {Connection(unprocessed.stream, session)}, r.af)

\* Called only after UnprocessedConnection::receive returned a Sync; the
\* unwrap() panics when the waiting-sync entry is absent.
process_connection(m, unprocessed_token, session) ==
    LET r == remove_waiting_sync_by_stream_token(m, unprocessed_token) IN
    IF r.val = {} THEN Ret(r.m, "panic", {}, r.af)
    ELSE LET unprocessed == CHOOSE u \in r.val : TRUE
         IN Ret(r.m, "Ok", {Enqueue(Connection(unprocessed.stream, session), Ack)}, r.af)

\* Mutant: unprocessed_tokens keeps the token.
deregister_unprocessed_connection_keeping_token(m, token) ==
    IF token \notin DOMAIN m.unprocessed_connections THEN Ret(m, "panic", NONE, FALSE)
    ELSE
    Ret([m EXCEPT !.unprocessed_connections = Remove(@, token),
                  !.tokens = Restore(@, token)],
        "Ok", NONE, ~Restored(m.tokens, token))

deregister_unprocessed_connection(m, token) ==
    IF token \notin DOMAIN m.unprocessed_connections THEN Ret(m, "panic", NONE, FALSE)
    ELSE
    Ret([m EXCEPT !.unprocessed_connections = Remove(@, token),
                  !.tokens = Restore(@, token),
                  !.unprocessed_tokens = @ \ {token}],
        "Ok", NONE,
        ~Restored(m.tokens, token) \/ token \notin m.unprocessed_tokens)

deregister_connection(m, token) ==
    IF token \notin DOMAIN m.connections THEN Ret(m, "panic", NONE, FALSE)
    ELSE
    Ret([m EXCEPT !.connections = Remove(@, token),
                  !.tokens = Restore(@, token)],
        "Ok", NONE, ~Restored(m.tokens, token))

\* Mutant: the Connection is installed without the Sync.
create_connection_without_sync(m, stream, socket_address, token) ==
    IF socket_address \notin DOMAIN m.socket_to_session
    THEN Ret(m, "UnavailableSession", NONE, FALSE)
    ELSE LET session == m.socket_to_session[socket_address]
             m1 == [m EXCEPT !.socket_to_session = Remove(@, socket_address)]
         IN IF token = NONE THEN Ret(m1, "TooManyConnections", NONE, FALSE)
            ELSE LET r == register_connection(
                              [m1 EXCEPT !.tokens = @ \cup {token}],
                              Connection(stream, session), token)
                 IN Ret(r.m, "Ok", token, r.af)

\* token is what tokens.gen() returns.
create_connection(m, stream, socket_address, token) ==
    IF socket_address \notin DOMAIN m.socket_to_session
    THEN Ret(m, "UnavailableSession", NONE, FALSE)
    ELSE LET session == m.socket_to_session[socket_address]
             m1 == [m EXCEPT !.socket_to_session = Remove(@, socket_address)]
             connection == Enqueue(Connection(stream, session), Sync(session.nonce))
         IN IF token = NONE THEN Ret(m1, "TooManyConnections", NONE, FALSE)
            ELSE LET r == register_connection(
                              [m1 EXCEPT !.tokens = @ \cup {token}], connection, token)
                 IN Ret(r.m, "Ok", token, r.af)

\* Mutant: a second registration for the address replaces the first.
register_session_overwriting(m, socket_address, session) ==
    Ret([m EXCEPT
           !.registered_sessions = Insert(@, session.nonce, session),
           !.socket_to_session = Insert(@, socket_address, session)],
        IF socket_address \in DOMAIN m.socket_to_session
        THEN "SessionAlreadyRegistered" ELSE "Ok", NONE, FALSE)

register_session(m, socket_address, session) ==
    IF socket_address \in DOMAIN m.socket_to_session
    THEN Ret(m, "SessionAlreadyRegistered", NONE, FALSE)
    ELSE Ret([m EXCEPT
                !.registered_sessions = Insert(@, session.nonce, session),
                !.socket_to_session = Insert(@, socket_address, session)],
             "Ok", NONE, FALSE)

\* Manager::deregister_stream: TRUE for a processed connection, FALSE for an
\* unprocessed one, InvalidStream for neither.
manager_deregister_stream(m, token) ==
    IF token \in DOMAIN m.connections THEN Ret(m, "Ok", TRUE, FALSE)
    ELSE IF token \in DOMAIN m.unprocessed_connections THEN Ret(m, "Ok", FALSE, FALSE)
    ELSE Ret(m, "InvalidStream", FALSE, FALSE)

\* One call of Manager::receive; input is what the stream yields to it.
\* val is the returned bool; added is the token on_node_added was called with.
receive(m, stream, input) ==
    IF stream \in DOMAIN m.connections
    THEN Ret(m, "Ok", input.kind = "frame", FALSE) @@ [added |-> NONE]
    ELSE IF stream \notin DOMAIN m.unprocessed_connections
    THEN Ret(m, "InvalidStream", FALSE, FALSE) @@ [added |-> NONE]
    ELSE LET got == UnprocessedReceive(input, m.registered_sessions) IN
      IF got = "Err" THEN Ret(m, "ReceiveError", FALSE, FALSE) @@ [added |-> NONE]
      ELSE IF got = "None" THEN Ret(m, "Ok", TRUE, FALSE) @@ [added |-> NONE]
      ELSE LET session == m.registered_sessions[input.nonce]
               p == process_connection(m, stream, session)
           IN IF p.err # "Ok" THEN Ret(p.m, "panic", FALSE, p.af) @@ [added |-> NONE]
              ELSE LET connection == CHOOSE c \in p.val : TRUE
                       nonce == connection.session.nonce
                       m1 == [p.m EXCEPT !.registered_sessions = Remove(@, nonce)]
                       r == register_connection(m1, connection, stream)
                       af == \/ p.af \/ r.af
                             \/ nonce \notin DOMAIN p.m.registered_sessions
                             \/ (nonce \in DOMAIN p.m.registered_sessions
                                 /\ p.m.registered_sessions[nonce] # connection.session)
                   IN Ret(r.m, "Ok", FALSE, af) @@ [added |-> stream]

\* Mutant: a stream without a Connection is passed over in silence.
send_skipping_absent(m, stream) ==
    IF stream \notin DOMAIN m.connections THEN Ret(m, "Ok", FALSE, FALSE)
    ELSE Ret([m EXCEPT !.connections[stream].queue = <<>>], "Ok", FALSE, FALSE)

\* Manager::send: Connection::send drains the queue.
send(m, stream) ==
    IF stream \notin DOMAIN m.connections THEN Ret(m, "InvalidStream", FALSE, FALSE)
    ELSE Ret([m EXCEPT !.connections[stream].queue = <<>>], "Ok", FALSE, FALSE)

\* ------------------------------------------------------------ Handler
\* What a callback did: the callback, its argument, the error it returned (or
\* "Ok"), the stream and timer tokens it allocated, and the token it called
\* client.on_node_added with (NONE where there is none).
Out(op, arg, err, token, timer, added) ==
    [op |-> op, arg |-> arg, err |-> err, token |-> token, timer |-> timer,
     added |-> added]

\* No stream_readable callback is inside its loop; where the loop is not
\* followed call by call this never changes.
Returned == [stream |-> NONE, calls |-> 0]
NoFrame == [kind |-> "partial", nonce |-> 0]
NotReading ==
    /\ reading = Returned
    /\ unread = [t \in StreamTokens |-> NoFrame]
    /\ nodes_added = {}

Init ==
    /\ manager = Listen
    /\ node_token_to_socket = EmptyMap
    /\ socket_to_node_token = EmptyMap
    /\ listener_pending = 0
    /\ io_deregister = {}
    /\ debug_assert_failed = FALSE
    /\ session_credit = [s \in Session |-> NONE]
    /\ result = Out("initialize", ACCEPT_TOKEN, "Ok", NONE, NONE, NONE)
    /\ NotReading
    /\ debug_assertions = TRUE

\* session_credit[s] counts the successful register_session calls for s that
\* no Connection has used yet.  From MaxCredit on it is no longer counted
\* down, and it is NONE throughout where the count is not kept.
Registered(credit, s) ==
    [credit EXCEPT ![s] = IF @ \in {NONE, MaxCredit} THEN @ ELSE @ + 1]
Used(credit, s) ==
    [credit EXCEPT ![s] = IF @ \in {NONE, MaxCredit, 0} THEN @ ELSE @ - 1]

\* The process has not aborted: the reactor delivers the next event.  A
\* failed debug_assert! aborts the build that has it compiled in.
Idle == ~(debug_assertions /\ debug_assert_failed)

\* A peer's TCP connection arrives at the listener.
PeerConnects ==
    /\ Idle
    /\ listener_pending < MaxPending
    /\ listener_pending' = listener_pending + 1
    /\ result' = Out("peer_connects", listener_pending + 1, "Ok", NONE, NONE, NONE)
    /\ UNCHANGED <<manager, directory, io_deregister, debug_assert_failed,
                   session_credit>>

\* Handler::stream_readable(ACCEPT_TOKEN): Manager::accept once, then break.
\* socket_address is the peer of the pending connection; token and timer_token
\* are what the generators return.
StreamReadableAccept(socket_address, token, timer_token) ==
    /\ Idle
    /\ UNCHANGED <<io_deregister, session_credit>>
    /\ IF listener_pending = 0
       THEN /\ result' = Out("accept", ACCEPT_TOKEN, "Ok", NONE, NONE, NONE)
            /\ UNCHANGED <<manager, directory, listener_pending,
                           debug_assert_failed>>
       ELSE LET r == register_unprocessed_connection(
                         manager, Stream, token, timer_token) IN
            /\ listener_pending' = listener_pending - 1
            /\ manager' = r.m
            /\ IF r.err # "Ok"
               THEN /\ result' = Out("accept", ACCEPT_TOKEN, r.err, NONE, NONE, NONE)
                    /\ UNCHANGED <<directory, debug_assert_failed>>
               ELSE /\ node_token_to_socket' =
                           Insert(node_token_to_socket, token, socket_address)
                    /\ socket_to_node_token' =
                           Insert(socket_to_node_token, socket_address, token)
                    /\ debug_assert_failed' =
                           (\/ debug_assert_failed \/ r.af
                            \/ token \in DOMAIN node_token_to_socket
                            \/ socket_address \in DOMAIN socket_to_node_token)
                    /\ result' = Out("accept", ACCEPT_TOKEN, "Ok", token, timer_token, NONE)

\* Handler::stream_readable(stream): Manager::receive is called as long as it
\* returns true, which changes nothing; input is what the stream yields to the
\* call that ends the loop, by returning false or by failing.
StreamReadable(stream, input) ==
    /\ Idle
    /\ LET r == receive(manager, stream, input) IN
       /\ ~(r.err = "Ok" /\ r.val)
       /\ manager' = r.m
       /\ debug_assert_failed' = (debug_assert_failed \/ r.af)
       /\ session_credit' =
              IF r.added = NONE THEN session_credit
              ELSE Used(session_credit, r.m.connections[stream].session)
       /\ result' = Out("stream_readable", stream, r.err, NONE, NONE, r.added)
    /\ UNCHANGED <<directory, listener_pending, io_deregister>>

\* Handler::stream_writable(stream): nothing for an unprocessed token,
\* otherwise Manager::send until the queue is drained.
StreamWritable(stream) ==
    /\ Idle
    /\ LET r == IF stream \in unprocessed_tokens
                THEN Ret(manager, "Ok", FALSE, FALSE) ELSE send(manager, stream) IN
       /\ manager' = r.m
       /\ result' = Out("stream_writable", stream, r.err, NONE, NONE, NONE)
    /\ UNCHANGED <<directory, listener_pending, io_deregister, debug_assert_failed,
                   session_credit>>

\* Handler::stream_hup(stream) for a stream the reactor still holds.
StreamHup(stream) ==
    /\ Idle
    /\ stream \in (DOMAIN connections) \cup (DOMAIN unprocessed_connections)
    /\ stream \notin io_deregister
    /\ node_token_to_socket' = Remove(node_token_to_socket, stream)
    /\ socket_to_node_token' =
           IF stream \in DOMAIN node_token_to_socket
           THEN Remove(socket_to_node_token, node_token_to_socket[stream])
           ELSE socket_to_node_token
    /\ debug_assert_failed' =
           (\/ debug_assert_failed
            \/ stream \notin DOMAIN node_token_to_socket
            \/ node_token_to_socket[stream] \notin DOMAIN socket_to_node_token)
    /\ io_deregister' = io_deregister \cup {stream}
    /\ result' = Out("stream_hup", stream, "Ok", NONE, NONE, NONE)
    /\ UNCHANGED <<manager, listener_pending, session_credit>>

\* Handler::deregister_stream(stream), which the reactor calls for a stream
\* queued by io.deregister_stream.
DeregisterStream(stream) ==
    /\ Idle
    /\ stream \in io_deregister
    /\ io_deregister' = io_deregister \ {stream}
    /\ LET is_processed == manager_deregister_stream(manager, stream)
           r == IF is_processed.err # "Ok" THEN is_processed
                ELSE IF is_processed.val THEN deregister_connection(manager, stream)
                ELSE deregister_unprocessed_connection(manager, stream) IN
       /\ manager' = r.m
       /\ debug_assert_failed' = (debug_assert_failed \/ r.af)
       /\ result' = Out("deregister_stream", stream, r.err, NONE, NONE, NONE)
    /\ UNCHANGED <<directory, listener_pending, session_credit>>

\* Handler::timeout(token): a waiting-sync timer fires.
Timeout(token) ==
    /\ Idle
    /\ LET r == remove_waiting_sync_by_timer_token(manager, token) IN
       /\ manager' = r.m
       /\ debug_assert_failed' = (debug_assert_failed \/ r.af)
    /\ result' = Out("timeout", token, "Ok", NONE, NONE, NONE)
    /\ UNCHANGED <<directory, listener_pending, io_deregister, session_credit>>

\* Message::RegisterSession(socket_address, session).
RegisterSession(socket_address, session) ==
    /\ Idle
    /\ LET r == register_session(manager, socket_address, session) IN
       /\ manager' = r.m
       /\ session_credit' =
              IF r.err = "Ok" THEN Registered(session_credit, session)
              ELSE session_credit
       /\ result' = Out("RegisterSession", socket_address, r.err, NONE, NONE, NONE)
    /\ UNCHANGED <<directory, listener_pending, io_deregister, debug_assert_failed>>

\* Manager::connect: connected is what Stream::connect returned ("Some", "None"
\* or "Err"), token what tokens.gen() returns.
connect(m, socket_address, connected, token) ==
    IF connected = "Err" THEN Ret(m, "IoError", NONE, FALSE)
    ELSE IF connected = "None" THEN Ret(m, "Cannot create connection", NONE, FALSE)
    ELSE create_connection(m, Stream, socket_address, token)

\* Message::RequestConnection(socket_address, session).
RequestConnection(socket_address, session, connected, token) ==
    /\ Idle
    /\ LET registered == register_session(manager, socket_address, session)
           r == connect(registered.m, socket_address, connected, token)
           credit == IF registered.err = "Ok"
                     THEN Registered(session_credit, session) ELSE session_credit IN
       /\ manager' = r.m
       /\ IF r.err # "Ok"
          THEN /\ result' = Out("RequestConnection", socket_address, r.err,
                                NONE, NONE, NONE)
               /\ session_credit' = credit
               /\ UNCHANGED <<directory, debug_assert_failed>>
          ELSE /\ session_credit' = Used(credit, r.m.connections[r.val].session)
               /\ node_token_to_socket' =
                      Insert(node_token_to_socket, r.val, socket_address)
               /\ socket_to_node_token' =
                      Insert(socket_to_node_token, socket_address, r.val)
               /\ debug_assert_failed' =
                      (\/ debug_assert_failed \/ r.af
                       \/ r.val \in DOMAIN node_token_to_socket
                       \/ socket_address \in DOMAIN socket_to_node_token)
               /\ result' = Out("RequestConnection", socket_address, "Ok",
                                r.val, NONE, NONE)
    /\ UNCHANGED <<listener_pending, io_deregister>>

\* Message::RequestNegotiation and Message::SendExtensionMessage: a frame is
\* queued on the connection of node_id.
EnqueueMessage(op, node_id, frame) ==
    /\ Idle
    /\ IF node_id \notin DOMAIN connections
       THEN /\ result' = Out(op, node_id, "InvalidNode", NONE, NONE, NONE)
            /\ UNCHANGED manager
       ELSE /\ Len(connections[node_id].queue) < MaxQueue
            /\ manager' = [manager EXCEPT !.connections[node_id] = Enqueue(@, frame)]
            /\ result' = Out(op, node_id, "Ok", NONE, NONE, NONE)
    /\ UNCHANGED <<directory, listener_pending, io_deregister, debug_assert_failed,
                   session_credit>>

RequestNegotiation(node_id) ==
    EnqueueMessage("RequestNegotiation", node_id, Negotiation)

SendExtensionMessage(node_id) ==
    EnqueueMessage("SendExtensionMessage", node_id, Extension)

Next ==
    \/ /\ PeerConnects
       /\ UNCHANGED <<read_loop, debug_assertions>>
    \/ /\ \E socket_address \in Addrs :
            \E token \in Gen(tokens, StreamTokens) :
              \E timer_token \in Gen(waiting_sync_tokens, TimerTokens) :
                StreamReadableAccept(socket_address, token, timer_token)
       /\ UNCHANGED <<read_loop, debug_assertions>>
    \/ /\ \E stream \in StreamTokens, input \in Inputs : StreamReadable(stream, input)
       /\ UNCHANGED <<read_loop, debug_assertions>>
    \/ /\ \E stream \in StreamTokens : StreamWritable(stream)
       /\ UNCHANGED <<read_loop, debug_assertions>>
    \/ /\ \E stream \in StreamTokens : StreamHup(stream)
       /\ UNCHANGED <<read_loop, debug_assertions>>
    \/ /\ \E stream \in StreamTokens : DeregisterStream(stream)
       /\ UNCHANGED <<read_loop, debug_assertions>>
    \/ /\ \E token \in TimerTokens : Timeout(token)
       /\ UNCHANGED <<read_loop, debug_assertions>>
    \/ /\ \E socket_address \in Addrs, session \in Session :
            RegisterSession(socket_address, session)
       /\ UNCHANGED <<read_loop, debug_assertions>>
    \/ /\ \E socket_address \in Addrs, session \in Session :
            \E connected \in {"Some", "None", "Err"} :
              \E token \in Gen(tokens, StreamTokens) :
                RequestConnection(socket_address, session, connected, token)
       /\ UNCHANGED <<read_loop, debug_assertions>>
    \/ /\ \E node_id \in StreamTokens : RequestNegotiation(node_id)
       /\ UNCHANGED <<read_loop, debug_assertions>>
    \/ /\ \E node_id \in StreamTokens : SendExtensionMessage(node_id)
       /\ UNCHANGED <<read_loop, debug_assertions>>

Spec == Init /\ [][Next]_vars

\* The callbacks that create and end connections, with the registrations of
\* each session counted.
InitSessions ==
    /\ manager = Listen
    /\ node_token_to_socket = EmptyMap
    /\ socket_to_node_token = EmptyMap
    /\ listener_pending = 0
    /\ io_deregister = {}
    /\ debug_assert_failed = FALSE
    /\ session_credit = [s \in Session |-> 0]
    /\ result = Out("initialize", ACCEPT_TOKEN, "Ok", NONE, NONE, NONE)
    /\ NotReading
    /\ debug_assertions = TRUE

NextSessions ==
    \/ /\ PeerConnects
       /\ UNCHANGED <<read_loop, debug_assertions>>
    \/ /\ \E socket_address \in Addrs :
            \E token \in Gen(tokens, StreamTokens) :
              \E timer_token \in Gen(waiting_sync_tokens, TimerTokens) :
                StreamReadableAccept(socket_address, token, timer_token)
       /\ UNCHANGED <<read_loop, debug_assertions>>
    \/ /\ \E stream \in StreamTokens, input \in Inputs : StreamReadable(stream, input)
       /\ UNCHANGED <<read_loop, debug_assertions>>
    \/ /\ \E stream \in StreamTokens : StreamHup(stream)
       /\ UNCHANGED <<read_loop, debug_assertions>>
    \/ /\ \E stream \in StreamTokens : DeregisterStream(stream)
       /\ UNCHANGED <<read_loop, debug_assertions>>
    \/ /\ \E socket_address \in Addrs, session \in Session :
            RegisterSession(socket_address, session)
       /\ UNCHANGED <<read_loop, debug_assertions>>
    \/ /\ \E socket_address \in Addrs, session \in Session :
            \E connected \in {"Some", "None", "Err"} :
              \E token \in Gen(tokens, StreamTokens) :
                RequestConnection(socket_address, session, connected, token)
       /\ UNCHANGED <<read_loop, debug_assertions>>

SpecSessions == InitSessions /\ [][NextSessions]_vars

\* The callbacks that register sessions and create and end connections, with
\* one nonce more, so that two different sessions can be registered, with the
\* registrations not counted and with one peer at a time at the listener.
RegistryNonces == 1 .. (MaxNonce + 1)
RegistrySessions == [nonce : RegistryNonces, secret : Secrets]
RegistryInputs == [kind : {"partial", "malformed", "frame"}, nonce : {0}]
                      \cup [kind : {"sync"}, nonce : RegistryNonces]

InitRegistry ==
    /\ manager = Listen
    /\ node_token_to_socket = EmptyMap
    /\ socket_to_node_token = EmptyMap
    /\ listener_pending = 0
    /\ io_deregister = {}
    /\ debug_assert_failed = FALSE
    /\ session_credit = [s \in RegistrySessions |-> NONE]
    /\ result = Out("initialize", ACCEPT_TOKEN, "Ok", NONE, NONE, NONE)
    /\ NotReading
    /\ debug_assertions = TRUE

NextRegistry ==
    \/ /\ listener_pending = 0 /\ PeerConnects
       /\ UNCHANGED <<read_loop, debug_assertions>>
    \/ /\ \E socket_address \in Addrs :
            \E token \in Gen(tokens, StreamTokens) :
              \E timer_token \in Gen(waiting_sync_tokens, TimerTokens) :
                StreamReadableAccept(socket_address, token, timer_token)
       /\ UNCHANGED <<read_loop, debug_assertions>>
    \/ /\ \E stream \in StreamTokens, input \in RegistryInputs :
            StreamReadable(stream, input)
       /\ UNCHANGED <<read_loop, debug_assertions>>
    \/ /\ \E stream \in StreamTokens : StreamHup(stream)
       /\ UNCHANGED <<read_loop, debug_assertions>>
    \/ /\ \E stream \in StreamTokens : DeregisterStream(stream)
       /\ UNCHANGED <<read_loop, debug_assertions>>
    \/ /\ \E socket_address \in Addrs, session \in RegistrySessions :
            RegisterSession(socket_address, session)
       /\ UNCHANGED <<read_loop, debug_assertions>>
    \/ /\ \E socket_address \in Addrs, session \in RegistrySessions :
            \E connected \in {"Some", "None", "Err"} :
              \E token \in Gen(tokens, StreamTokens) :
                RequestConnection(socket_address, session, connected, token)
       /\ UNCHANGED <<read_loop, debug_assertions>>

SpecRegistry == InitRegistry /\ [][NextRegistry]_vars

\* ------------------------------------------------- the receive loop
\* A stream_readable callback has called receive and not returned yet.
InCallback == reading.stream # NONE

\* The peer of a stream the Manager holds sends: input is what the stream
\* yields to the next receive call.  Nothing arrives while a callback runs.
PeerSends(stream, input) ==
    /\ Idle
    /\ ~InCallback
    /\ stream \in (DOMAIN connections) \cup (DOMAIN unprocessed_connections)
    /\ unread[stream] = NoFrame
    /\ input # NoFrame
    /\ unread' = [unread EXCEPT ![stream] = input]
    /\ result' = Out("peer_sends", stream, "Ok", NONE, NONE, NONE)
    /\ UNCHANGED <<manager, directory, listener_pending, io_deregister,
                   debug_assert_failed, session_credit, reading, nodes_added,
                   debug_assertions>>

\* One turn of the loop of Handler::stream_readable(stream): the Manager is
\* locked and Manager::receive is called once; the callback returns when the
\* call fails or returns false and calls again when it returns true.  What the
\* stream yielded is consumed; an incomplete frame stays incomplete.
StreamReadableCall(stream) ==
    /\ Idle
    /\ reading.stream \in {NONE, stream}
    /\ LET r == receive(manager, stream, unread[stream]) IN
       /\ manager' = r.m
       /\ debug_assert_failed' = (debug_assert_failed \/ r.af)
       /\ session_credit' =
              IF r.added = NONE THEN session_credit
              ELSE Used(session_credit, r.m.connections[stream].session)
       /\ nodes_added' =
              IF r.added = NONE THEN nodes_added ELSE nodes_added \cup {r.added}
       /\ reading' =
              IF r.err = "Ok" /\ r.val
              THEN [stream |-> stream, calls |-> (reading.calls + 1) % MaxCalls]
              ELSE Returned
       /\ result' = Out("receive", stream, r.err, NONE, NONE, r.added)
    /\ unread' = [unread EXCEPT ![stream] = NoFrame]
    /\ UNCHANGED <<directory, listener_pending, io_deregister, debug_assertions>>

\* The thread inside the loop makes its next call.
NextCall == InCallback /\ \E stream \in StreamTokens : StreamReadableCall(stream)

InitReadLoop ==
    /\ manager = Listen
    /\ node_token_to_socket = EmptyMap
    /\ socket_to_node_token = EmptyMap
    /\ listener_pending = 0
    /\ io_deregister = {}
    /\ debug_assert_failed = FALSE
    /\ session_credit = [s \in Session |-> NONE]
    /\ result = Out("initialize", ACCEPT_TOKEN, "Ok", NONE, NONE, NONE)
    /\ NotReading
    /\ debug_assertions = TRUE

\* The callbacks run one at a time: none starts before stream_readable has
\* returned.  Deregistering a stream forgets what was unread on it and that
\* on_node_added was called for it.
NextReadLoop ==
    \/ /\ ~InCallback /\ listener_pending = 0 /\ PeerConnects
       /\ UNCHANGED <<read_loop, debug_assertions>>
    \/ /\ ~InCallback
       /\ \E socket_address \in Addrs :
            \E token \in Gen(tokens, StreamTokens) :
              \E timer_token \in Gen(waiting_sync_tokens, TimerTokens) :
                StreamReadableAccept(socket_address, token, timer_token)
       /\ UNCHANGED <<read_loop, debug_assertions>>
    \/ \E stream \in StreamTokens, input \in Inputs : PeerSends(stream, input)
    \/ \E stream \in StreamTokens : StreamReadableCall(stream)
    \/ /\ ~InCallback
       /\ \E stream \in StreamTokens : StreamHup(stream)
       /\ UNCHANGED <<read_loop, debug_assertions>>
    \/ \E stream \in StreamTokens :
         /\ ~InCallback
         /\ DeregisterStream(stream)
         /\ unread' = [unread EXCEPT ![stream] = NoFrame]
         /\ nodes_added' = nodes_added \ {stream}
         /\ UNCHANGED <<reading, debug_assertions>>
    \/ /\ ~InCallback
       /\ \E socket_address \in Addrs, session \in Session :
            RegisterSession(socket_address, session)
       /\ UNCHANGED <<read_loop, debug_assertions>>
    \/ /\ ~InCallback
       /\ \E socket_address \in Addrs, session \in Session :
            \E connected \in {"Some", "None", "Err"} :
              \E token \in Gen(tokens, StreamTokens) :
                RequestConnection(socket_address, session, connected, token)
       /\ UNCHANGED <<read_loop, debug_assertions>>

\* The I/O thread does not stop inside the loop.
SpecReadLoop == InitReadLoop /\ [][NextReadLoop]_vars /\ WF_vars(NextCall)

\* ------------------------------------------------- the release build
\* debug_assert! is compiled out: a callback in which one would have failed
\* returns as usual and the reactor goes on delivering events.  The callbacks
\* that create and end connections, with one peer at a time at the listener.
InitRelease ==
    /\ manager = Listen
    /\ node_token_to_socket = EmptyMap
    /\ socket_to_node_token = EmptyMap
    /\ listener_pending = 0
    /\ io_deregister = {}
    /\ debug_assert_failed = FALSE
    /\ session_credit = [s \in Session |-> NONE]
    /\ result = Out("initialize", ACCEPT_TOKEN, "Ok", NONE, NONE, NONE)
    /\ NotReading
    /\ debug_assertions = FALSE

NextRelease ==
    \/ /\ listener_pending = 0 /\ PeerConnects
       /\ UNCHANGED <<read_loop, debug_assertions>>
    \/ /\ \E socket_address \in Addrs :
            \E token \in Gen(tokens, StreamTokens) :
              \E timer_token \in Gen(waiting_sync_tokens, TimerTokens) :
                StreamReadableAccept(socket_address, token, timer_token)
       /\ UNCHANGED <<read_loop, debug_assertions>>
    \/ /\ \E stream \in StreamTokens, input \in Inputs : StreamReadable(stream, input)
       /\ UNCHANGED <<read_loop, debug_assertions>>
    \/ /\ \E stream \in StreamTokens : StreamHup(stream)
       /\ UNCHANGED <<read_loop, debug_assertions>>
    \/ /\ \E stream \in StreamTokens : DeregisterStream(stream)
       /\ UNCHANGED <<read_loop, debug_assertions>>
    \/ /\ \E socket_address \in Addrs, session \in Session :
            RegisterSession(socket_address, session)
       /\ UNCHANGED <<read_loop, debug_assertions>>
    \/ /\ \E socket_address \in Addrs, session \in Session :
            \E connected \in {"Some", "None", "Err"} :
              \E token \in Gen(tokens, StreamTokens) :
                RequestConnection(socket_address, session, connected, token)
       /\ UNCHANGED <<read_loop, debug_assertions>>

SpecRelease == InitRelease /\ [][NextRelease]_vars

\* ------------------------------------------------- a second timer token
\* The callbacks of the inbound path with one timer token more in the pool
\* (the pool of the source holds ten), so that an accept can succeed after a
\* waiting stream was hung up; one peer at a time at the listener.
AcceptTimerTokens == FIRST_WAIT_SYNC_TOKEN .. LAST_WAIT_SYNC_TOKEN

InitAccept ==
    /\ manager = Listen
    /\ node_token_to_socket = EmptyMap
    /\ socket_to_node_token = EmptyMap
    /\ listener_pending = 0
    /\ io_deregister = {}
    /\ debug_assert_failed = FALSE
    /\ session_credit = [s \in Session |-> NONE]
    /\ result = Out("initialize", ACCEPT_TOKEN, "Ok", NONE, NONE, NONE)
    /\ NotReading
    /\ debug_assertions = TRUE

NextAccept ==
    \/ /\ listener_pending = 0 /\ PeerConnects
       /\ UNCHANGED <<read_loop, debug_assertions>>
    \/ /\ \E socket_address \in Addrs :
            \E token \in Gen(tokens, StreamTokens) :
              \E timer_token \in Gen(waiting_sync_tokens, AcceptTimerTokens) :
                StreamReadableAccept(socket_address, token, timer_token)
       /\ UNCHANGED <<read_loop, debug_assertions>>
    \/ /\ \E stream \in StreamTokens, input \in Inputs : StreamReadable(stream, input)
       /\ UNCHANGED <<read_loop, debug_assertions>>
    \/ /\ \E stream \in StreamTokens : StreamHup(stream)
       /\ UNCHANGED <<read_loop, debug_assertions>>
    \/ /\ \E stream \in StreamTokens : DeregisterStream(stream)
       /\ UNCHANGED <<read_loop, debug_assertions>>
    \/ /\ \E token \in AcceptTimerTokens : Timeout(token)
       /\ UNCHANGED <<read_loop, debug_assertions>>
    \/ /\ \E socket_address \in Addrs, session \in Session :
            RegisterSession(socket_address, session)
       /\ UNCHANGED <<read_loop, debug_assertions>>

SpecAccept == InitAccept /\ [][NextAccept]_vars

\* ------------------------------------------------------------ helpers
\* The streams the Manager holds, processed or not.
LiveTokens == (DOMAIN connections) \cup (DOMAIN unprocessed_connections)
PoolExhausted == tokens = StreamTokens

\* C1. Token conservation: the allocated stream tokens are exactly the keys of
\* connections and of unprocessed_connections, and no token is a key of both.
C1_TokenConservation ==
    /\ tokens = LiveTokens
    /\ (DOMAIN connections) \cap (DOMAIN unprocessed_connections) = {}

\* C2. The two waiting-sync maps are inverses of each other:
\* stream_to_timer[s] = t exactly when timer_to_stream[t] = s.
C2_TimerMapsInverse ==
    /\ \A s \in DOMAIN waiting_sync_stream_to_timer :
          LET t == waiting_sync_stream_to_timer[s] IN
          t \in DOMAIN waiting_sync_timer_to_stream
              /\ waiting_sync_timer_to_stream[t] = s
    /\ \A t \in DOMAIN waiting_sync_timer_to_stream :
          LET s == waiting_sync_timer_to_stream[t] IN
          s \in DOMAIN waiting_sync_stream_to_timer
              /\ waiting_sync_stream_to_timer[s] = t

\* C3. The streams with a waiting-sync timer are exactly the unprocessed
\* connections, and the allocated timer tokens are exactly their timers.
C3_TimerMapDomain ==
    /\ DOMAIN waiting_sync_stream_to_timer = DOMAIN unprocessed_connections
    /\ waiting_sync_tokens = Values(waiting_sync_stream_to_timer)

\* C4. When an inbound handshake completes, the session of the new Connection
\* is afterwards in neither index: its nonce is no key of registered_sessions
\* and no address of socket_to_session maps to it.
C4_SessionRemovedOnConsumption ==
    [][(result'.op = "stream_readable" /\ result'.added # NONE) =>
         LET session == connections'[result'.added].session IN
         /\ session.nonce \notin DOMAIN registered_sessions'
         /\ \A a \in DOMAIN socket_to_session' : socket_to_session'[a] # session]_vars

\* C5. Session single use: every Connection, inbound or outbound, is created
\* with a session that has a successful registration no Connection has used
\* yet (for RequestConnection, possibly the registration it has just made).
C5_SessionSingleUse ==
    [][/\ (result'.op = "stream_readable" /\ result'.added # NONE) =>
            session_credit[connections'[result'.added].session] # 0
       /\ (result'.op = "RequestConnection" /\ result'.err = "Ok") =>
            \/ session_credit[connections'[result'.token].session] # 0
            \/ result'.arg \notin DOMAIN socket_to_session]_vars

\* C6. The two directory maps are inverses of each other and hold one pair for
\* every stream the Manager holds that has not hung up; stream_hup(t) leaves
\* neither t nor the address t was mapped to in them.
DirectoryInverse ==
    /\ \A t \in DOMAIN node_token_to_socket :
          LET a == node_token_to_socket[t] IN
          a \in DOMAIN socket_to_node_token /\ socket_to_node_token[a] = t
    /\ \A a \in DOMAIN socket_to_node_token :
          LET t == socket_to_node_token[a] IN
          t \in DOMAIN node_token_to_socket /\ node_token_to_socket[t] = a
C6_DirectoryBijection ==
    /\ [](DirectoryInverse /\ DOMAIN node_token_to_socket = LiveTokens \ io_deregister)
    /\ [][result'.op = "stream_hup" =>
            /\ result'.arg \notin DOMAIN node_token_to_socket'
            /\ result'.arg \in DOMAIN node_token_to_socket =>
                  node_token_to_socket[result'.arg] \notin DOMAIN socket_to_node_token']_vars

\* The capacities of the two pools bound the tokens and the connections.
WithinCapacity ==
    /\ Cardinality(tokens) <= MAX_CONNECTIONS
    /\ Cardinality(waiting_sync_tokens) <= MAX_SYNC_WAITS
    /\ Cardinality(DOMAIN connections) + Cardinality(DOMAIN unprocessed_connections)
           <= MAX_CONNECTIONS
    /\ Cardinality(DOMAIN unprocessed_connections) <= MAX_SYNC_WAITS
\* An accept that finds a connection pending, or a RequestConnection.
AcceptsPending == result'.op = "accept" /\ listener_pending > 0
Connects == result'.op = "RequestConnection"

\* C7 as stated. Capacity bounds, and with the stream pool exhausted every
\* accept of a pending connection and every connect fails with
\* TooManyConnections.
C7_CapacityBoundsAsStated ==
    /\ []WithinCapacity
    /\ [][(PoolExhausted /\ (AcceptsPending \/ Connects)) =>
            result'.err = "TooManyConnections"]_vars

\* C7 as amended. Capacity bounds; with the stream pool exhausted an accept of
\* a pending connection fails with TooManyConnections and a connect fails:
\* with TooManyConnections once Stream::connect has yielded a stream, with
\* "Cannot create connection" or the I/O error when it has not.
C7_CapacityBounds ==
    /\ []WithinCapacity
    /\ [](PoolExhausted =>
            \A a \in Addrs, s \in Session :
               connect(register_session(manager, a, s).m, a, "Some", NONE).err
                   = "TooManyConnections")
    /\ [][/\ (PoolExhausted /\ AcceptsPending) => result'.err = "TooManyConnections"
          /\ (PoolExhausted /\ Connects) =>
                result'.err \in {"TooManyConnections", "Cannot create connection",
                                 "IoError"}]_vars
\* An accept has failed with TooManyConnections on the exhausted pool.
C7_Witness ==
    /\ PoolExhausted
    /\ result.op = "accept" /\ result.err = "TooManyConnections"

\* C8. An accept that fails with TooManyConnections or TooManyWaitingSync
\* leaves the token pools, the connection maps, unprocessed_tokens and the
\* timer maps as they were.
C8_FailedAcceptUnchanged ==
    [][(/\ result'.op = "accept"
        /\ result'.err \in {"TooManyConnections", "TooManyWaitingSync"}) =>
         UNCHANGED <<tokens, waiting_sync_tokens, connections, unprocessed_connections,
                     unprocessed_tokens, waiting_sync_stream_to_timer,
                     waiting_sync_timer_to_stream>>]_vars

\* C9. A RequestConnection that fails with UnavailableSession,
\* TooManyConnections or "Cannot create connection" leaves the session
\* registry, the token pools, the connection maps and the directory as they were.
C9_FailedConnectUnchanged ==
    [][(/\ result'.op = "RequestConnection"
        /\ result'.err \in {"UnavailableSession", "TooManyConnections",
                            "Cannot create connection"}) =>
         UNCHANGED <<manager, directory>>]_vars

\* C10. A timeout delivered with the timer token of a stream t that is still
\* unprocessed removes t from unprocessed_connections and unprocessed_tokens,
\* leaves no entry for the pair in either timer map, frees the timer token and
\* the stream token, and does not call on_node_added.
C10_HandshakeTimeout ==
    [][result'.op = "timeout" =>
         \A t \in DOMAIN unprocessed_connections :
            (/\ t \in DOMAIN waiting_sync_stream_to_timer
             /\ waiting_sync_stream_to_timer[t] = result'.arg) =>
               /\ t \notin DOMAIN unprocessed_connections'
               /\ t \notin unprocessed_tokens'
               /\ t \notin DOMAIN waiting_sync_stream_to_timer'
               /\ t \notin DOMAIN waiting_sync_timer_to_stream'
               /\ result'.arg \notin DOMAIN waiting_sync_timer_to_stream'
               /\ result'.arg \notin waiting_sync_tokens'
               /\ result'.added = NONE
               /\ t \notin tokens']_vars

\* C11. Hangup before handshake: when stream_hup(t) and then
\* deregister_stream(t) have run for a stream t that is still unprocessed, t's
\* unprocessed entry, its entries in both timer maps and its directory entries
\* are gone, and its stream token and its timer token are free again.
C11_HangupBeforeHandshake ==
    [][(/\ result'.op = "deregister_stream"
        /\ result'.arg \in DOMAIN unprocessed_connections) =>
         LET t == result'.arg IN
         /\ t \notin DOMAIN unprocessed_connections'
         /\ t \notin unprocessed_tokens'
         /\ t \notin DOMAIN waiting_sync_stream_to_timer'
         /\ t \notin DOMAIN waiting_sync_timer_to_stream'
         /\ t \in DOMAIN waiting_sync_stream_to_timer =>
               LET timer == waiting_sync_stream_to_timer[t] IN
               /\ timer \notin DOMAIN waiting_sync_timer_to_stream'
               /\ timer \notin waiting_sync_tokens'
         /\ t \notin DOMAIN node_token_to_socket'
         /\ t \notin Values(socket_to_node_token')
         /\ t \notin tokens']_vars

\* What receive(t) does when it parses a complete Sync with nonce on the
\* unprocessed stream t.
SyncReceived(t, nonce) == receive(manager, t, [kind |-> "sync", nonce |-> nonce])
\* The handshake of t has completed in m: t is a Connection with an Ack
\* queued, it has no timer mapping, its timer is free and the nonce is gone.
HandshakeCompleted(m, t, timer, nonce) ==
    /\ t \in DOMAIN m.connections
    /\ t \notin DOMAIN m.unprocessed_connections
    /\ t \notin m.unprocessed_tokens
    /\ t \in m.tokens
    /\ m.connections[t].queue = <<Ack>>
    /\ m.connections[t].session.nonce = nonce
    /\ t \notin DOMAIN m.waiting_sync_stream_to_timer
    /\ t \notin DOMAIN m.waiting_sync_timer_to_stream
    /\ timer \notin DOMAIN m.waiting_sync_timer_to_stream
    /\ timer \notin m.waiting_sync_tokens
    /\ nonce \notin DOMAIN m.registered_sessions

\* C12. Inbound handshake completion: receive(t) on an unprocessed token t
\* that parses a complete Sync whose nonce N is registered moves t from
\* unprocessed_connections to connections under the same token with an Ack
\* queued, removes t's timer mappings, frees its timer token, removes N from
\* registered_sessions, calls on_node_added(t) once and returns false; the
\* stream_readable callback that completes a handshake ends in that state.
C12_InboundCompletion ==
    /\ [](\A t \in DOMAIN unprocessed_connections :
            \A nonce \in DOMAIN registered_sessions :
               LET r == SyncReceived(t, nonce) IN
               /\ t \in DOMAIN waiting_sync_stream_to_timer
               /\ r.err = "Ok" /\ r.val = FALSE /\ r.added = t
               /\ HandshakeCompleted(r.m, t, waiting_sync_stream_to_timer[t], nonce))
    /\ [][(/\ result'.op = "stream_readable"
           /\ result'.arg \in DOMAIN unprocessed_connections
           /\ result'.err = "Ok") =>
            LET t == result'.arg IN
            /\ result'.added = t
            /\ \E nonce \in DOMAIN registered_sessions :
                  /\ HandshakeCompleted(manager', t, waiting_sync_stream_to_timer[t], nonce)
                  /\ manager' = SyncReceived(t, nonce).m
            /\ connections'[t].stream = unprocessed_connections[t].stream]_vars
\* A handshake has just completed on the stream that was unprocessed.
C12_Witness ==
    /\ result.op = "stream_readable" /\ result.err = "Ok" /\ result.added = result.arg
    /\ result.arg \in DOMAIN connections
    /\ connections[result.arg].queue = <<Ack>>
    /\ waiting_sync_tokens = {}
    /\ ~debug_assert_failed

\* What Manager::connect(P) does when Stream::connect yields a stream and
\* tokens.gen() yields token, in the Manager m.
Connected(m, P, token) == connect(m, P, "Some", token)
\* m1 is m with a Connection for the session registered for P installed under
\* the fresh token, Sync(nonce) queued, P's session popped, and the
\* unprocessed and waiting-sync state untouched.
OutboundInstalled(m, m1, P, token) ==
    /\ token \notin m.tokens /\ m1.tokens = m.tokens \cup {token}
    /\ token \notin DOMAIN m.connections
    /\ token \in DOMAIN m1.connections
    /\ m1.connections[token].session = m.socket_to_session[P]
    /\ m1.connections[token].queue = <<Sync(m.socket_to_session[P].nonce)>>
    /\ token \notin DOMAIN m1.unprocessed_connections
    /\ token \notin m1.unprocessed_tokens
    /\ P \notin DOMAIN m1.socket_to_session
    /\ m1.unprocessed_connections = m.unprocessed_connections
    /\ m1.unprocessed_tokens = m.unprocessed_tokens
    /\ m1.waiting_sync_tokens = m.waiting_sync_tokens
    /\ m1.waiting_sync_stream_to_timer = m.waiting_sync_stream_to_timer
    /\ m1.waiting_sync_timer_to_stream = m.waiting_sync_timer_to_stream

\* C13. Outbound path: connect(P) with a session registered for P and a free
\* stream token installs a Connection in connections, never in
\* unprocessed_connections, under the fresh token with Sync(nonce of that
\* session) queued, removes P from socket_to_session, and allocates no timer
\* token and adds no timer mapping; a successful RequestConnection(P, session)
\* ends in that state, for the session registered for P once it has tried to
\* register its own, with the directory entries token -> P and P -> token.
C13_OutboundPath ==
    /\ [](\A P \in DOMAIN socket_to_session :
            \A token \in Gen(tokens, StreamTokens) \ {NONE} :
               LET r == Connected(manager, P, token) IN
               /\ r.err = "Ok" /\ r.val = token
               /\ OutboundInstalled(manager, r.m, P, token))
    /\ [][(result'.op = "RequestConnection" /\ result'.err = "Ok") =>
            LET P == result'.arg
                token == result'.token IN
            /\ result'.timer = NONE
            /\ token \in StreamTokens
            /\ \E session \in RegistrySessions :
                  LET registered == register_session(manager, P, session).m IN
                  /\ registered.socket_to_session[P] =
                        IF P \in DOMAIN socket_to_session
                        THEN socket_to_session[P] ELSE session
                  /\ manager' = Connected(registered, P, token).m
                  /\ OutboundInstalled(registered, manager', P, token)
                  /\ connections'[token].queue =
                        <<Sync(registered.socket_to_session[P].nonce)>>
            /\ unprocessed_connections' = unprocessed_connections
            /\ waiting_sync_tokens' = waiting_sync_tokens
            /\ waiting_sync_stream_to_timer' = waiting_sync_stream_to_timer
            /\ waiting_sync_timer_to_stream' = waiting_sync_timer_to_stream
            /\ token \in DOMAIN node_token_to_socket'
            /\ node_token_to_socket'[token] = P
            /\ P \in DOMAIN socket_to_node_token'
            /\ socket_to_node_token'[P] = token]_vars
\* A RequestConnection has just installed an outbound Connection.
C13_Witness ==
    /\ result.op = "RequestConnection" /\ result.err = "Ok"
    /\ result.token \in DOMAIN connections
    /\ connections[result.token].queue = <<Sync(connections[result.token].session.nonce)>>
    /\ result.arg \notin DOMAIN socket_to_session
    /\ result.token \in DOMAIN node_token_to_socket
    /\ node_token_to_socket[result.token] = result.arg
    /\ ~debug_assert_failed

\* C14. Duplicate session: register_session(P, s2) when socket_to_session
\* already has an entry s1 for P fails with SessionAlreadyRegistered and
\* changes nothing: socket_to_session[P] is still s1 and registered_sessions is
\* as it was, so s2's nonce is not added and no entry is replaced.  The
\* RegisterSession message fails in exactly that case and changes nothing then.
C14_DuplicateSession ==
    /\ [](\A P \in DOMAIN socket_to_session : \A s2 \in RegistrySessions :
            LET r == register_session(manager, P, s2) IN
            /\ r.err = "SessionAlreadyRegistered"
            /\ r.m = manager
            /\ r.m.socket_to_session[P] = socket_to_session[P]
            /\ r.m.registered_sessions = registered_sessions)
    /\ [][result'.op = "RegisterSession" =>
            /\ (result'.err = "SessionAlreadyRegistered")
                  <=> (result'.arg \in DOMAIN socket_to_session)
            /\ result'.arg \in DOMAIN socket_to_session =>
                  /\ UNCHANGED <<manager, directory>>
                  /\ socket_to_session'[result'.arg] = socket_to_session[result'.arg]]_vars
\* A RegisterSession for P has just failed while s1 is registered for P under
\* its nonce and the other nonce is not registered.
C14_Witness ==
    /\ result.op = "RegisterSession" /\ result.err = "SessionAlreadyRegistered"
    /\ result.arg \in DOMAIN socket_to_session
    /\ LET s1 == socket_to_session[result.arg] IN
       /\ DOMAIN registered_sessions = {s1.nonce}
       /\ registered_sessions[s1.nonce] = s1
       /\ DOMAIN socket_to_session = {result.arg}

\* C15. Notification ordering: on_node_added(t) is called only for an
\* established connection t, and no extension frame is delivered to a
\* connection, inbound or outbound, before on_node_added was called for it.
C15_NotificationOrdering ==
    /\ [](nodes_added \subseteq DOMAIN connections)
    /\ [][(/\ result'.op = "receive"
           /\ result'.arg \in DOMAIN connections
           /\ unread[result'.arg].kind = "frame") =>
            result'.arg \in nodes_added]_vars

\* C18. Read loop terminates: a stream_readable callback that is inside its
\* receive loop eventually returns, also when the stream is unprocessed and
\* holds no complete Sync and no new bytes arrive.
C18_ReadLoopTerminates == InCallback ~> ~InCallback

\* Nothing of the waiting stream t and its timer is left in m.
NoResidue(m, t, timer) ==
    /\ t \notin DOMAIN m.waiting_sync_stream_to_timer
    /\ t \notin DOMAIN m.waiting_sync_timer_to_stream
    /\ timer \notin DOMAIN m.waiting_sync_timer_to_stream
    /\ t \notin m.unprocessed_tokens
    /\ t \notin DOMAIN m.unprocessed_connections
    /\ timer \notin m.waiting_sync_tokens

\* C16. Idempotent eviction: for an unprocessed stream t with timer
\* timer_of(t), remove_waiting_sync_by_stream_token(t) and
\* remove_waiting_sync_by_timer_token(timer_of(t)) called in either order end
\* in the same Manager, in which t has no entry in either timer map, in
\* unprocessed_tokens or in unprocessed_connections and timer_of(t) is free;
\* either operation called when the entry is absent changes nothing.
C16_IdempotentEviction ==
    /\ \A t \in DOMAIN unprocessed_connections :
          /\ t \in DOMAIN waiting_sync_stream_to_timer
          /\ LET timer == waiting_sync_stream_to_timer[t]
                 stream_first ==
                     remove_waiting_sync_by_timer_token(
                         remove_waiting_sync_by_stream_token(manager, t).m, timer).m
                 timer_first ==
                     remove_waiting_sync_by_stream_token(
                         remove_waiting_sync_by_timer_token(manager, timer).m, t).m
             IN /\ stream_first = timer_first
                /\ NoResidue(stream_first, t, timer)
                /\ remove_waiting_sync_by_stream_token(stream_first, t).m = stream_first
                /\ remove_waiting_sync_by_timer_token(stream_first, timer).m = stream_first
    /\ \A t \in StreamTokens \ DOMAIN waiting_sync_stream_to_timer :
          remove_waiting_sync_by_stream_token(manager, t).m = manager
    /\ \A timer \in TimerTokens \ Values(waiting_sync_stream_to_timer) :
          remove_waiting_sync_by_timer_token(manager, timer).m = manager
\* timeout has just been called with the timer of a stream that is waiting,
\* so the eviction by timer has run and the eviction by stream has not.
C16_Witness ==
    /\ result.op = "timeout"
    /\ \E t \in DOMAIN unprocessed_connections :
          /\ t \in DOMAIN waiting_sync_stream_to_timer
          /\ waiting_sync_stream_to_timer[t] = result.arg

\* C17. The accept loop drains the listener: stream_readable(ACCEPT_TOKEN)
\* accepts until accept yields None, so a callback that returns Ok leaves no
\* connection pending; and with k connections pending, k stream tokens and k
\* timer tokens free it returns Ok having accepted all k, each with its
\* unprocessed entry, its timer and its directory entry.
C17_AcceptLoopDrains ==
    [][result'.op = "accept" =>
         /\ result'.err = "Ok" => listener_pending' = 0
         /\ (/\ listener_pending <= Cardinality(StreamTokens \ tokens)
             /\ listener_pending <= Cardinality(TimerTokens \ waiting_sync_tokens)) =>
               LET accepted ==
                       (DOMAIN unprocessed_connections') \ DOMAIN unprocessed_connections
               IN /\ result'.err = "Ok"
                  /\ Cardinality(accepted) = listener_pending
                  /\ accepted \subseteq DOMAIN waiting_sync_stream_to_timer'
                  /\ accepted \subseteq DOMAIN node_token_to_socket'
                  /\ Cardinality(waiting_sync_tokens') =
                        Cardinality(waiting_sync_tokens) + listener_pending]_vars

\* C19. In every reachable state unprocessed_tokens is the key set of
\* unprocessed_connections.
C19_UnprocessedTokensAreKeys == unprocessed_tokens = DOMAIN unprocessed_connections
\* A stream that was still unprocessed has just been deregistered: its timer
\* mapping is still there, its unprocessed entry and its token are not.
C19_Witness ==
    /\ result.op = "deregister_stream" /\ result.err = "Ok"
    /\ result.arg \notin DOMAIN connections
    /\ result.arg \in DOMAIN waiting_sync_stream_to_timer
    /\ result.arg \notin unprocessed_tokens
    /\ result.arg \notin DOMAIN unprocessed_connections

\* C20. Lookup errors leave the state unchanged: RequestNegotiation and
\* SendExtensionMessage for a node that is no key of connections (absent or
\* still unprocessed) fail with InvalidNode; receive on a stream in neither
\* connection map and send on a stream that is no key of connections (absent
\* or unprocessed) fail with InvalidStream; no frame is queued and neither the
\* Manager nor the directory changes.
C20_LookupErrors ==
    /\ [](\A stream \in StreamTokens :
            /\ stream \notin DOMAIN connections =>
                  LET r == send(manager, stream) IN
                  r.err = "InvalidStream" /\ r.m = manager
            /\ stream \notin LiveTokens =>
                  \A input \in Inputs :
                     LET r == receive(manager, stream, input) IN
                     r.err = "InvalidStream" /\ r.m = manager /\ r.added = NONE)
    /\ [][/\ (/\ result'.op \in {"RequestNegotiation", "SendExtensionMessage"}
              /\ result'.arg \notin DOMAIN connections) =>
                /\ result'.err = "InvalidNode"
                /\ UNCHANGED <<manager, directory>>
          /\ (/\ result'.op \in {"stream_readable", "stream_writable"}
              /\ result'.arg \notin LiveTokens) =>
                /\ result'.err = "InvalidStream"
                /\ UNCHANGED <<manager, directory>>]_vars
\* SendExtensionMessage has just failed for a node that is still unprocessed.
C20_Witness ==
    /\ result.op = "SendExtensionMessage" /\ result.err = "InvalidNode"
    /\ result.arg \in DOMAIN unprocessed_connections
    /\ result.arg \notin DOMAIN connections

\* The directory entries of the tokens other than t are as they were.
OtherDirectoryEntriesUnchanged(t) ==
    /\ \A u \in StreamTokens \ {t} :
          /\ (u \in DOMAIN node_token_to_socket') <=> (u \in DOMAIN node_token_to_socket)
          /\ u \in DOMAIN node_token_to_socket =>
                node_token_to_socket'[u] = node_token_to_socket[u]
    /\ \A a \in DOMAIN socket_to_node_token :
          socket_to_node_token[a] # t =>
             /\ a \in DOMAIN socket_to_node_token'
             /\ socket_to_node_token'[a] = socket_to_node_token[a]
    /\ \A a \in DOMAIN socket_to_node_token' :
          a \in DOMAIN socket_to_node_token
             /\ socket_to_node_token'[a] = socket_to_node_token[a]

\* C21. Hangup of an established connection: stream_hup(t) for a token t in
\* connections removes t's two directory entries and deregister_stream(t)
\* removes t from connections and frees its stream token; both leave every
\* other token's connection, unprocessed entry, timer mapping and directory
\* entries, the session registry and the timer pool as they were.
C21_HangupEstablished ==
    [][/\ (result'.op = "stream_hup" /\ result'.arg \in DOMAIN connections) =>
            LET t == result'.arg IN
            /\ t \notin DOMAIN node_token_to_socket'
            /\ \A a \in DOMAIN socket_to_node_token' : socket_to_node_token'[a] # t
            /\ t \in DOMAIN node_token_to_socket =>
                  node_token_to_socket[t] \notin DOMAIN socket_to_node_token'
            /\ OtherDirectoryEntriesUnchanged(t)
            /\ UNCHANGED manager
       /\ (result'.op = "deregister_stream" /\ result'.arg \in DOMAIN connections) =>
            LET t == result'.arg IN
            /\ result'.err = "Ok"
            /\ connections' = Remove(connections, t)
            /\ tokens' = tokens \ {t}
            /\ t \in tokens
            /\ UNCHANGED <<unprocessed_connections, unprocessed_tokens,
                           waiting_sync_stream_to_timer, waiting_sync_timer_to_stream,
                           waiting_sync_tokens, registered_sessions, socket_to_session,
                           directory>>]_vars

\* C22. Fresh tokens are clean: the stream token an accept allocates, any of
\* the free ones, has no entry in waiting_sync_stream_to_timer,
\* waiting_sync_timer_to_stream, unprocessed_connections or unprocessed_tokens
\* when it is handed out, so the debug assertions of
\* register_unprocessed_connection hold, also for a token whose earlier
\* connection was hung up before or after its handshake.
C22_FreshTokensClean ==
    [][(result'.op = "accept" /\ result'.token # NONE) =>
         LET token == result'.token IN
         /\ token \notin DOMAIN waiting_sync_stream_to_timer
         /\ token \notin DOMAIN waiting_sync_timer_to_stream
         /\ token \notin DOMAIN unprocessed_connections
         /\ token \notin unprocessed_tokens
         /\ ~install_unprocessed_connection(
                 manager, Stream, token, result'.timer).af]_vars

====
